---- MODULE Spec2Model ----
(***************************************************************************)
(* Model of the tweet enrichment pipeline: the lifespan startup            *)
(* (app/main.py), DataProcessor (app/prosesor.py), the                     *)
(* ElasticSearchRepository (app/utils/elasticSearch_repository.py), the    *)
(* two analyzers and the two read endpoints.                               *)
(*                                                                         *)
(* The document store is modelled by two sets of documents: `index` (what  *)
(* has been written) and `searchable` (what count/search/scan observe,     *)
(* i.e. the state as of the last refresh).                                 *)
(***************************************************************************)
EXTENDS Integers, Sequences, FiniteSets, TLC

VARIABLES
    table,       \* the DataFrame DataLoader.load_data returns (a sequence of rows)
    index,       \* store: the set of documents, every write applied
    searchable,  \* store: the documents count/search/scan read (as of the last refresh)
    epoch,       \* number of application starts (lifespan runs) so far
    up,          \* TRUE while the application serves requests
    pc,          \* position of the process() task: "none", "L26".."L33", "done", "failed"
    runName,     \* the pass method being executed: "none", "ingest", "emotion", "weapons", "cleanup"
    runAt,       \* position inside that method
    runBy,       \* who invoked it: "process" (the pipeline) or "direct" (a caller of the method)
    pending,     \* rows still to be turned into index actions by _generate_actions
    hits,        \* the open scan: ids (with their _source at scan time) not yet yielded
    writes,      \* number of bulk actions the running/last pass has applied
    docs_to_process, \* the count the running pass obtained (line 70)
    failed,      \* number of actions of the running bulk call that the store rejected
    result,      \* how the last method call ended: "none", "None", "dict", "raised"
    failures,    \* number of store calls that have failed so far
    ep,          \* the read-endpoint request in flight, then its response
    hist,        \* history of the current application run (steps completed by process())
    call,        \* a function called on its own: its name and its arguments
    returned     \* what that call returned (None while it has not returned)

\* the application
appVars == <<table, index, searchable, epoch, up, pc, runName, runAt, runBy,
             pending, hits, writes, docs_to_process, failed, result, failures, ep, hist>>

\* a function applied to inputs of its own
fnVars == <<call, returned>>

vars == <<appVars, fnVars>>

----------------------------------------------------------------------------
(* Bounds *)

MaxRows == 2        \* rows in the source table
MaxFailures == 1    \* store calls that may fail in one behaviour
MaxStarts == 2      \* application starts (the second one is a restart)
MaxFilters == 2     \* entries of one filter argument of _build_query
MaxWords == 3       \* tokens of a sentence given to find_weapons

----------------------------------------------------------------------------
(* Optional values: None is Python's None / an absent field *)

None == <<>>
Some(x) == <<x>>

Max2(a, b) == IF a >= b THEN a ELSE b
Min2(a, b) == IF a <= b THEN a ELSE b

SeqToSet(s) == {s[i] : i \in 1..Len(s)}

RECURSIVE SelectSeq2(_, _)
\* the subsequence of s whose elements are in set S, order kept
SelectSeq2(s, S) ==
    IF s = <<>> THEN <<>>
    ELSE IF Head(s) \in S THEN <<Head(s)>> \o SelectSeq2(Tail(s), S)
    ELSE SelectSeq2(Tail(s), S)

----------------------------------------------------------------------------
(* Input data: texts are sequences of whitespace-separated words; the      *)
(* empty sequence is the empty string.                                     *)

\* a row of the source table: CreateDate parseable?, TweetID numeric?,
\* the Antisemitic flag and the text cell (None = NaN / missing)
Row(date, tweet, flag, text) ==
    [CreateDate |-> date, TweetID |-> tweet, Antisemitic |-> flag, text |-> text]

RowKinds == << Row(TRUE,  TRUE,  TRUE,  Some(<<"hate", "gun", "hello", "knife">>)),
               Row(TRUE,  TRUE,  TRUE,  Some(<<"love">>)),
               Row(TRUE,  TRUE,  FALSE, Some(<<"love">>)),
               Row(TRUE,  TRUE,  FALSE, Some(<<"hello", "gun">>)),
               Row(TRUE,  TRUE,  FALSE, Some(<<"hate">>)),
               Row(TRUE,  TRUE,  FALSE, Some(<<>>)),
               Row(TRUE,  TRUE,  FALSE, Some(<<"hate", "<unscorable>">>)),
               Row(FALSE, TRUE,  FALSE, Some(<<"love">>)),
               Row(TRUE,  FALSE, TRUE,  Some(<<"hate">>)),
               Row(TRUE,  TRUE,  TRUE,  None) >>

Rows == {RowKinds[k] : k \in 1..Len(RowKinds)}

\* the tables the pipeline is run on: up to MaxRows rows, listed in the order
\* of RowKinds (the position of a row in the table only decides which id the
\* store assigns to its document)
Tables ==
    UNION { { [i \in 1..n |-> RowKinds[ks[i]]] :
                ks \in {f \in [1..n -> 1..Len(RowKinds)] :
                          \A i \in 1..n : \A j \in 1..n : i < j => f[i] <= f[j]} }
            : n \in 0..MaxRows }

\* the keyword list load_lines_as_list reads from WEAPONS_PATH
weapon_as_list == <<"gun", "knife", "rifle">>

----------------------------------------------------------------------------
(* Analyzers *)

\* the compound score of the VADER lexicon, times 10 (an integer in -10..10):
\* the per-word valences are summed and clipped
Valence(w) == CASE w = "love" -> 6
                [] w = "hate" -> -6
                [] OTHER -> 0

RECURSIVE SumValence(_)
SumValence(text) ==
    IF text = <<>> THEN 0 ELSE Valence(Head(text)) + SumValence(Tail(text))

\* a word on which the lexicon's scoring raises
Unscorable(text) == \E i \in 1..Len(text) : text[i] = "<unscorable>"

\* SentimentIntensityAnalyzer.polarity_scores: the compound score, or an error
polarity_scores(text) ==
    [raised |-> Unscorable(text),
     compound |-> IF Unscorable(text) THEN 0 ELSE Max2(-10, Min2(10, SumValence(text)))]

\* the default thresholds 0.5 and -0.5 of get_sentiment_label, times 10
positive_threshold == 5
negative_threshold == -5

\* SentimentAnalyzer.get_sentiment_score: 0.0 for an empty text, and 0.0
\* when the scoring raises (lines 33-35)
get_sentiment_score(text) ==
    IF text = <<>> THEN 0
    ELSE LET score == polarity_scores(text)
         IN  IF score.raised THEN 0 ELSE score.compound

\* SentimentAnalyzer.convert_to_sentiment_label
convert_to_sentiment_label(score, pos, neg) ==
    IF score >= pos THEN "positive"
    ELSE IF score <= neg THEN "negative"
    ELSE "neutral"

\* SentimentAnalyzer.get_sentiment_label: always a label, never None
get_sentiment_label(text) ==
    IF text = <<>> THEN Some("neutral")
    ELSE Some(convert_to_sentiment_label(get_sentiment_score(text),
                                         positive_threshold, negative_threshold))

\* str.split(): a sentence is a sequence of tokens, each a word or a run of
\* whitespace " "; the words are what is left, in order, and none is empty
split(sentence) == SelectSeq(sentence, LAMBDA token : token # " ")

\* a detector that returns the list it has built even when it is empty
find_weapons_EmptyList(weapons, sentence) ==
    LET list_weapons == SelectSeq2(split(sentence), weapons)
    IN  Some(list_weapons)

\* WeaponDetector.find_weapons: the words of the sentence that are in the
\* keyword set, in order of occurrence; None when there is none
find_weapons(weapons, sentence) ==
    LET list_weapons == SelectSeq2(split(sentence), weapons)
    IN  IF Len(list_weapons) > 0 THEN Some(list_weapons) ELSE None

\* Python truthiness of an analyzer result (prosesor.py line 89): None, ""
\* and [] are falsy
Truthy(field_name, analyzed) ==
    /\ analyzed # None
    /\ IF field_name = "emotion" THEN analyzed[1] # "" ELSE analyzed[1] # <<>>

\* the analyzer_func each enrichment pass is given
analyzer_func(field_name, text) ==
    IF field_name = "emotion" THEN get_sentiment_label(text)
    ELSE find_weapons(SeqToSet(weapon_as_list), text)

----------------------------------------------------------------------------
(* Cleaning *)

\* DataProcessor._validate_and_clean_dataframe: to_datetime / to_numeric with
\* errors="coerce" turn a bad cell into NaT / NaN, dropna drops the rows with
\* a missing CreateDate, TweetID or text.  An empty string is not missing.
RowSurvives(r) == r.CreateDate /\ r.TweetID /\ r.text # None

RECURSIVE validate_and_clean_dataframe(_)
validate_and_clean_dataframe(df) ==
    IF df = <<>> THEN <<>>
    ELSE IF RowSurvives(Head(df))
         THEN <<[CreateDate |-> Head(df).CreateDate, TweetID |-> Head(df).TweetID,
                 Antisemitic |-> Head(df).Antisemitic, text |-> Head(df).text[1]]>>
              \o validate_and_clean_dataframe(Tail(df))
         ELSE validate_and_clean_dataframe(Tail(df))

----------------------------------------------------------------------------
(* Query builder *)

\* keyword arguments of _build_query; None and the empty value take the same
\* branch of every `if`, so both are the empty sequence / empty string here
NoParams == [query_text |-> "", search_terms |-> <<>>, term_filters |-> <<>>,
             exists_filters |-> <<>>, not_exists_filters |-> <<>>,
             terms_filters |-> <<>>, range_filters |-> <<>>,
             script_filters |-> <<>>]

Clause(kind, field, values) == [kind |-> kind, field |-> field, values |-> values]

MapSeq(s, Op(_)) == [i \in 1..Len(s) |-> Op(s[i])]

TermClause(f) == Clause("term", f.field, <<f.value>>)
ExistsClause(field) == Clause("exists", field, <<>>)
TermsClause(f) == Clause("terms", f.field, f.values)
RangeClause(f) == Clause("range", f.field, f.config)
ScriptClause(src) == Clause("script", "", <<src>>)

\* a text search that appends a clause for each of the two text arguments
must_clauses_Appending(p) ==
    (IF p.query_text # "" THEN <<Clause("match", "text", <<p.query_text>>)>> ELSE <<>>)
    \o (IF p.search_terms # <<>> THEN <<Clause("terms", "text", p.search_terms)>> ELSE <<>>)

\* lines 52-58: the text search
must_clauses(p) ==
    IF p.query_text # "" THEN <<Clause("match", "text", <<p.query_text>>)>>
    ELSE IF p.search_terms # <<>> THEN <<Clause("terms", "text", p.search_terms)>>
    ELSE <<Clause("match_all", "", <<>>)>>

\* filter clauses without the range filters
filter_clauses_NoRange(p) ==
    MapSeq(p.term_filters, TermClause)
    \o MapSeq(p.exists_filters, ExistsClause)
    \o MapSeq(p.terms_filters, TermsClause)
    \o MapSeq(p.script_filters, ScriptClause)

\* lines 60-68 and 75-94: term, exists, terms, range and script filters, in
\* the order in which the code appends them
filter_clauses(p) ==
    MapSeq(p.term_filters, TermClause)
    \o MapSeq(p.exists_filters, ExistsClause)
    \o MapSeq(p.terms_filters, TermsClause)
    \o MapSeq(p.range_filters, RangeClause)
    \o MapSeq(p.script_filters, ScriptClause)

\* lines 70-73: the not-exists filters
must_not_clauses(p) == MapSeq(p.not_exists_filters, ExistsClause)

\* ElasticSearchRepository._build_query
build_query(p) ==
    [must |-> must_clauses(p), filter |-> filter_clauses(p),
     must_not |-> must_not_clauses(p)]

\* the search_params of the three passes and of the endpoints
EmotionParams == [NoParams EXCEPT !.not_exists_filters = <<"emotion">>]
WeaponParams == [NoParams EXCEPT !.terms_filters = <<[field |-> "text", values |-> weapon_as_list]>>]
\* a cleanup predicate without the term filter on the Antisemitic flag
CleanupParams_AnyFlag ==
    [NoParams EXCEPT !.not_exists_filters = <<"weapons">>,
                     !.terms_filters = <<[field |-> "emotion", values |-> <<"neutral", "positive">>]>>]

\* a cleanup predicate that leaves the positive label out of the terms filter
CleanupParams_NeutralOnly ==
    [NoParams EXCEPT !.term_filters = <<[field |-> "Antisemitic", value |-> "false"]>>,
                     !.not_exists_filters = <<"weapons">>,
                     !.terms_filters = <<[field |-> "emotion", values |-> <<"neutral">>]>>]

CleanupParams == [NoParams EXCEPT !.term_filters = <<[field |-> "Antisemitic", value |-> "false"]>>,
                                  !.not_exists_filters = <<"weapons">>,
                                  !.terms_filters = <<[field |-> "emotion", values |-> <<"neutral", "positive">>]>>]
AntisemiticWithWeaponsParams ==
    [NoParams EXCEPT !.term_filters = <<[field |-> "Antisemitic", value |-> "true"]>>,
                     !.exists_filters = <<"weapons">>]
MultipleWeaponsParams ==
    [NoParams EXCEPT !.script_filters = <<"doc['weapons'].size() >= 2">>]

\* the keyword arguments _build_query is applied to on its own.  The dict
\* arguments (term, terms, range filters) hold distinct fields in insertion
\* order; the list arguments may repeat a field.
TermItems == << [field |-> "Antisemitic", value |-> "false"],
                [field |-> "emotion", value |-> "negative"],
                [field |-> "text", value |-> "gun"] >>
TermsItems == << [field |-> "emotion", values |-> <<"neutral", "positive">>],
                 [field |-> "text", values |-> weapon_as_list],
                 [field |-> "weapons", values |-> <<"gun">>] >>
RangeItems == << [field |-> "created_at", config |-> <<"gte">>],
                 [field |-> "updated_at", config |-> <<"lt">>],
                 [field |-> "TweetID", config |-> <<"gt">>] >>
ScriptItems == << "doc['weapons'].size() >= 2", "doc['weapons'].size() >= 1",
                  "doc['text'].size() >= 1" >>

Prefixes(items) == {SubSeq(items, 1, n) : n \in 0..Min2(MaxFilters, Len(items))}

FieldLists == UNION {[1..n -> {"emotion", "weapons"}] : n \in 0..MaxFilters}

QueryInputs ==
    [query_text : {"", "gun"}, search_terms : {<<>>, weapon_as_list},
     term_filters : Prefixes(TermItems), exists_filters : FieldLists,
     not_exists_filters : FieldLists, terms_filters : Prefixes(TermsItems),
     range_filters : Prefixes(RangeItems), script_filters : Prefixes(ScriptItems)]

----------------------------------------------------------------------------
(* The document store's evaluation of a query *)

\* the terms the store has indexed for a field of a document
FieldTerms(doc, field) ==
    CASE field = "Antisemitic" -> {IF doc.Antisemitic THEN "true" ELSE "false"}
      [] field = "text" -> SeqToSet(doc.text)
      [] field = "emotion" -> IF doc.emotion = None THEN {} ELSE {doc.emotion[1]} \ {""}
      [] field = "weapons" -> IF doc.weapons = None THEN {} ELSE SeqToSet(doc.weapons[1])
      [] OTHER -> {}

ClauseMatches(doc, c) ==
    CASE c.kind = "match_all" -> TRUE
      [] c.kind = "match" -> c.values[1] \in FieldTerms(doc, c.field)
      [] c.kind = "term" -> c.values[1] \in FieldTerms(doc, c.field)
      [] c.kind = "terms" -> FieldTerms(doc, c.field) \cap SeqToSet(c.values) # {}
      [] c.kind = "exists" -> FieldTerms(doc, c.field) # {}
      [] c.kind = "script" -> /\ c.values[1] = "doc['weapons'].size() >= 2"
                              /\ Cardinality(FieldTerms(doc, "weapons")) >= 2
      [] OTHER -> FALSE

Matches(doc, q) ==
    /\ \A i \in 1..Len(q.must) : ClauseMatches(doc, q.must[i])
    /\ \A i \in 1..Len(q.filter) : ClauseMatches(doc, q.filter[i])
    /\ \A i \in 1..Len(q.must_not) : ~ClauseMatches(doc, q.must_not[i])

\* the documents of a view that a query selects
Select(view, params) == {d \in view : Matches(d, build_query(params))}

----------------------------------------------------------------------------
(* State *)

\* the statement of process() that follows the one at line l
NextLine(l) == CASE l = "L26" -> "L27" [] l = "L27" -> "L28" [] l = "L28" -> "L29"
                 [] l = "L29" -> "L30" [] l = "L30" -> "L31" [] l = "L31" -> "L32"
                 [] l = "L32" -> "L33" [] OTHER -> "done"

\* the methods class ElasticSearchRepository defines
RepositoryMethods == {"_build_query", "search_documents", "stream_all_documents",
                      "bulk_index_from_dataframe", "bulk_update", "count"}

\* search_params and field_name of a pass
ParamsOf(name) == CASE name = "emotion" -> EmotionParams
                    [] name = "weapons" -> WeaponParams
                    [] OTHER -> CleanupParams

\* a document as bulk_index_from_dataframe's _generate_actions creates it
NewDoc(id, record) ==
    [id |-> id, TweetID |-> record.TweetID, CreateDate |-> record.CreateDate,
     Antisemitic |-> record.Antisemitic, text |-> record.text,
     emotion |-> None, weapons |-> None,
     created_at |-> "ingest", updated_at |-> "ingest"]

\* an update that replaces the document by one holding only the new field
UpdateDoc_Replacing(d, field_name, analyzed) ==
    IF field_name = "emotion"
    THEN [d EXCEPT !.emotion = analyzed, !.weapons = None, !.updated_at = "emotion"]
    ELSE [d EXCEPT !.weapons = analyzed, !.emotion = None, !.updated_at = "weapons"]

\* an update that stores its result as a new document
UpdateDoc_NewId(d, field_name, analyzed) ==
    IF field_name = "emotion"
    THEN [d EXCEPT !.id = <<d.id[1], d.id[2] + 100>>, !.emotion = analyzed,
                   !.updated_at = "emotion"]
    ELSE [d EXCEPT !.id = <<d.id[1], d.id[2] + 100>>, !.weapons = analyzed,
                   !.updated_at = "weapons"]

\* the partial update of an enrichment action (prosesor.py lines 90-98)
UpdateDoc(d, field_name, analyzed) ==
    IF field_name = "emotion"
    THEN [d EXCEPT !.emotion = analyzed, !.updated_at = "emotion"]
    ELSE [d EXCEPT !.weapons = analyzed, !.updated_at = "weapons"]

\* the endpoints' completeness test is about this condition of the index
Incomplete(view) == view = {} \/ \E d \in view : d.emotion = None

IdleEp == [pc |-> "idle", which |-> "none", missing |-> 0, inc |-> FALSE,
           status |-> "none", message |-> "none", documents |-> {}, done |-> FALSE]

NoCall == [fn |-> "none", args |-> <<>>]

\* the application before its first start, with the source table `df`
InitApp(df) ==
    /\ table = df
    /\ index = {}
    /\ searchable = {}
    /\ epoch = 0
    /\ up = FALSE
    /\ pc = "none"
    /\ runName = "none"
    /\ runAt = "none"
    /\ runBy = "none"
    /\ pending = <<>>
    /\ hits = {}
    /\ writes = 0
    /\ docs_to_process = 0
    /\ failed = 0
    /\ result = "none"
    /\ failures = 0
    /\ ep = IdleEp
    /\ hist = <<>>

Init ==
    /\ \E df \in Tables : InitApp(df)
    /\ call = NoCall
    /\ returned = None

----------------------------------------------------------------------------
(* Application start: lifespan, ElasticsearchCoon.initialize_index *)

\* a startup that creates the index only if it is missing and keeps its documents
Lifespan_KeepIndex ==
    /\ epoch < MaxStarts
    /\ epoch' = epoch + 1
    /\ index' = index
    /\ searchable' = index
    /\ up' = TRUE
    /\ pc' = "L26"
    /\ runName' = "none" /\ runAt' = "none" /\ runBy' = "none"
    /\ pending' = <<>> /\ hits' = {} /\ writes' = 0 /\ docs_to_process' = 0 /\ failed' = 0 /\ result' = "none"
    /\ ep' = IdleEp /\ hist' = <<>>
    /\ UNCHANGED <<table, failures>>
    /\ UNCHANGED fnVars

\* initialize_index deletes the index, creates it and refreshes it; then the
\* DataProcessor is built and process() is started as a background task.
\* A start after the first one is a restart of the process: whatever the old
\* process was doing is gone.
Lifespan ==
    /\ epoch < MaxStarts
    /\ epoch' = epoch + 1
    /\ index' = {}
    /\ searchable' = {}
    /\ up' = TRUE
    /\ pc' = "L26"
    /\ runName' = "none" /\ runAt' = "none" /\ runBy' = "none"
    /\ pending' = <<>> /\ hits' = {} /\ writes' = 0 /\ docs_to_process' = 0 /\ failed' = 0 /\ result' = "none"
    /\ ep' = IdleEp /\ hist' = <<>>
    /\ UNCHANGED <<table, failures>>
    /\ UNCHANGED fnVars

\* a store call of initialize_index fails: the error is re-raised, startup
\* fails and the application does not run; the old index may or may not have
\* been deleted already
LifespanFails ==
    /\ epoch < MaxStarts
    /\ failures < MaxFailures
    /\ failures' = failures + 1
    /\ epoch' = epoch + 1
    /\ \E deleted \in BOOLEAN :
         /\ index' = IF deleted THEN {} ELSE index
         /\ searchable' = IF deleted THEN {} ELSE searchable
    /\ up' = FALSE
    /\ pc' = "none"
    /\ runName' = "none" /\ runAt' = "none" /\ runBy' = "none"
    /\ pending' = <<>> /\ hits' = {} /\ writes' = 0 /\ docs_to_process' = 0 /\ failed' = 0 /\ result' = "none"
    /\ ep' = IdleEp /\ hist' = <<>>
    /\ UNCHANGED table
    /\ UNCHANGED fnVars

----------------------------------------------------------------------------
(* The store's own periodic refresh *)

StoreRefresh ==
    /\ searchable # index
    /\ searchable' = index
    /\ UNCHANGED <<table, index, epoch, up, pc, runName, runAt, runBy,
                   pending, hits, writes, docs_to_process, failed, result, failures, ep, hist>>
    /\ UNCHANGED fnVars

----------------------------------------------------------------------------
(* Return and raise of a pass method *)

\* the method returns value (None or the dict of counts) to its caller:
\* process() goes on to its next statement
Return(value) ==
    /\ runName' = "none" /\ runAt' = "none" /\ runBy' = "none"
    /\ result' = value
    /\ docs_to_process' = 0 /\ failed' = 0
    /\ pc' = IF runBy = "process" THEN NextLine(pc) ELSE pc
    /\ hist' = IF runBy = "process" THEN Append(hist, runName) ELSE hist

\* a process() that catches the error of a step and goes on
Raise_Swallowed ==
    /\ runName' = "none" /\ runAt' = "none" /\ runBy' = "none"
    /\ result' = "raised"
    /\ docs_to_process' = 0 /\ failed' = 0
    /\ pc' = IF runBy = "process" THEN NextLine(pc) ELSE pc
    /\ hist' = hist

\* the method raises: process() has no handler, the task ends with the error
Raise ==
    /\ runName' = "none" /\ runAt' = "none" /\ runBy' = "none"
    /\ result' = "raised"
    /\ docs_to_process' = 0 /\ failed' = 0
    /\ pc' = IF runBy = "process" THEN "failed" ELSE pc
    /\ hist' = hist

----------------------------------------------------------------------------
(* process(), line 26: _load_and_index_tweets and bulk_index_from_dataframe *)

LoadAndIndex ==
    /\ pc = "L26" /\ runName = "none"
    /\ runName' = "ingest" /\ runAt' = "bulk" /\ runBy' = "process"
    /\ pending' = validate_and_clean_dataframe(table)
    /\ writes' = 0
    /\ result' = "none"
    /\ UNCHANGED <<table, index, searchable, epoch, up, pc, hits, failures, ep, hist, docs_to_process, failed>>
    /\ UNCHANGED fnVars

\* an ingestion that gives every document the same id
IndexAction_SameId ==
    /\ runName = "ingest" /\ runAt = "bulk" /\ pending # <<>>
    /\ index' = {NewDoc(<<epoch, 1>>, Head(pending))}
    /\ pending' = Tail(pending)
    /\ writes' = writes + 1
    /\ UNCHANGED <<table, searchable, epoch, up, pc, runName, runAt, runBy,
                   hits, result, failures, ep, hist, docs_to_process, failed>>
    /\ UNCHANGED fnVars

\* async_bulk sends the next index action; the store assigns the id
IndexAction ==
    /\ runName = "ingest" /\ runAt = "bulk" /\ pending # <<>>
    /\ index' = index \cup {NewDoc(<<epoch, writes + 1>>, Head(pending))}
    /\ pending' = Tail(pending)
    /\ writes' = writes + 1
    /\ UNCHANGED <<table, searchable, epoch, up, pc, runName, runAt, runBy,
                   hits, result, failures, ep, hist, docs_to_process, failed>>
    /\ UNCHANGED fnVars

\* lines 172-173: async_bulk has returned (no action was rejected); the
\* refresh that ends bulk_index_from_dataframe, then the method returns
IndexRefresh ==
    /\ runName = "ingest" /\ runAt = "bulk" /\ pending = <<>>
    /\ failed = 0
    /\ searchable' = index
    /\ Return("dict")
    /\ UNCHANGED <<table, index, epoch, up, pending, hits, writes, failures, ep>>
    /\ UNCHANGED fnVars

----------------------------------------------------------------------------
(* process(), lines 27, 29, 31, 33: self.es_repository.refresh() *)

ProcessRefresh ==
    /\ pc \in {"L27", "L29", "L31", "L33"} /\ runName = "none"
    /\ IF "refresh" \in RepositoryMethods
       THEN /\ searchable' = index
            /\ pc' = NextLine(pc)
            /\ hist' = Append(hist, "refresh")
       ELSE \* AttributeError: the repository has no such method
            /\ pc' = "failed"
            /\ UNCHANGED <<searchable, hist>>
    /\ UNCHANGED <<table, index, epoch, up, runName, runAt, runBy,
                   pending, hits, writes, docs_to_process, failed, result, failures, ep>>
    /\ UNCHANGED fnVars

----------------------------------------------------------------------------
(* The three passes over the index: _enrich_documents_with_emotion,         *)
(* _enrich_documents_with_weapon_info (both _generic_enrich_documents) and  *)
(* _cleanup_irrelevant_documents                                            *)

Passes == {"emotion", "weapons", "cleanup"}

LineOf(name) == CASE name = "emotion" -> "L28" [] name = "weapons" -> "L30"
                  [] OTHER -> "L32"

\* a count without the except branch: the store error is raised
count_Raising(storeOk, view, kwargs) ==
    [raised |-> ~storeOk,
     value |-> IF storeOk THEN Cardinality(Select(view, kwargs)) ELSE 0]

\* ElasticSearchRepository.count: the store's count of the documents the
\* predicates select, 0 when the store call fails; it never raises
count(storeOk, view, kwargs) ==
    [raised |-> FALSE,
     value |-> IF storeOk THEN Cardinality(Select(view, kwargs)) ELSE 0]

\* the method is entered: by process() at lines 28, 30, 32, or by a caller
\* that invokes the method on the DataProcessor when no task is running and
\* the index is refreshed (the state process() calls it in)
CallPass(name) ==
    /\ up /\ runName = "none"
    /\ pc = LineOf(name) \/ (pc \in {"done", "failed"} /\ searchable = index)
    /\ runName' = name
    /\ runAt' = "count"
    /\ runBy' = IF pc = LineOf(name) THEN "process" ELSE "direct"
    /\ writes' = 0
    /\ result' = "none"
    /\ UNCHANGED <<table, index, searchable, epoch, up, pc, pending, hits,
                   failures, ep, hist, docs_to_process, failed>>
    /\ UNCHANGED fnVars

\* a pass that goes on to its bulk call whatever the count is
CountStep_NoEarlyReturn(storeOk) ==
    LET counted == count(storeOk, searchable, ParamsOf(runName))
    IN  IF counted.raised
        THEN Raise
        ELSE /\ docs_to_process' = counted.value
             /\ runAt' = "scan"
             /\ UNCHANGED <<runName, runBy, pc, hist, result, failed>>

\* lines 70-73 / 138-141: count the documents the predicate selects and
\* return None when there is none
CountStep(storeOk) ==
    LET counted == count(storeOk, searchable, ParamsOf(runName))
    IN  IF counted.raised
        THEN Raise
        ELSE IF counted.value = 0
        THEN Return("None")
        ELSE /\ docs_to_process' = counted.value
             /\ runAt' = "scan"
             /\ UNCHANGED <<runName, runBy, pc, hist, result, failed>>

PassCount ==
    /\ runName \in Passes /\ runAt = "count"
    /\ CountStep(TRUE)
    /\ UNCHANGED <<table, index, searchable, epoch, up, pending, hits, writes,
                   failures, ep>>
    /\ UNCHANGED fnVars

\* bulk_update pulls the first action: the generator opens the scan, which
\* reads the documents the predicate selects at that moment
PassScan ==
    /\ runName \in Passes /\ runAt = "scan"
    /\ hits' = {[id |-> d.id, text |-> d.text] : d \in Select(searchable, ParamsOf(runName))}
    /\ runAt' = "actions"
    /\ UNCHANGED <<table, index, searchable, epoch, up, pc, runName, runBy,
                   pending, writes, docs_to_process, failed, result, failures, ep, hist>>
    /\ UNCHANGED fnVars

\* a generator that yields an action for every document streamed
SkipsDocument_Never(name, text) == FALSE

\* lines 84-89: generate_update_actions yields no action for a document whose
\* text is empty or whose analyzer result is falsy (the cleanup generator
\* yields a delete action for every hit)
SkipsDocument(name, text) ==
    /\ name # "cleanup"
    /\ (text = <<>> \/ ~Truthy(name, analyzer_func(name, text)))

\* the generator takes the next hit and, unless it skips it, yields an action
\* that the bulk helper applies to the store.  An action on a document that
\* is no longer in the index is an item error, which the bulk helper raises.
PassAction ==
    /\ runName \in Passes /\ runAt = "actions"
    /\ \E h \in hits :
         LET target == {d \in index : d.id = h.id}
             analyzed_result == analyzer_func(runName, h.text)
             skip == SkipsDocument(runName, h.text)
         IN  IF skip
             THEN /\ hits' = hits \ {h}
                  /\ UNCHANGED <<index, writes, runName, runAt, runBy, pc, hist, result,
                                 docs_to_process, failed>>
             ELSE IF target = {}
             THEN /\ hits' = {}
                  /\ Raise
                  /\ UNCHANGED <<index, writes>>
             ELSE /\ hits' = hits \ {h}
                  /\ index' = IF runName = "cleanup"
                              THEN index \ target
                              ELSE (index \ target)
                                   \cup {UpdateDoc(d, runName, analyzed_result) : d \in target}
                  /\ writes' = writes + 1
                  /\ UNCHANGED <<runName, runAt, runBy, pc, hist, result, docs_to_process, failed>>
    /\ UNCHANGED <<table, searchable, epoch, up, pending, failures, ep>>
    /\ UNCHANGED fnVars

\* a bulk_update that returns without the refresh of line 186
PassRefresh_NoRefresh ==
    /\ runName \in Passes /\ runAt = "actions" /\ hits = {}
    /\ failed = 0
    /\ searchable' = searchable
    /\ Return("dict")
    /\ UNCHANGED <<table, index, epoch, up, pending, hits, writes, failures, ep>>
    /\ UNCHANGED fnVars

\* lines 185-186: async_bulk has returned (no action was rejected); the
\* refresh that ends bulk_update, then the method returns
PassRefresh ==
    /\ runName \in Passes /\ runAt = "actions" /\ hits = {}
    /\ failed = 0
    /\ searchable' = index
    /\ Return("dict")
    /\ UNCHANGED <<table, index, epoch, up, pending, hits, writes, failures, ep>>
    /\ UNCHANGED fnVars

\* a store call of the running method fails.  count() catches the error and
\* returns 0, so the pass returns None; every other error is re-raised.
PassFail ==
    /\ runName # "none"
    /\ failures < MaxFailures
    /\ failures' = failures + 1
    /\ IF runAt = "count" THEN CountStep(FALSE) ELSE Raise
    /\ pending' = <<>>
    /\ hits' = {}
    /\ UNCHANGED <<table, index, searchable, epoch, up, writes, ep>>
    /\ UNCHANGED fnVars

\* the store rejects one action of the running bulk call (an item error in
\* the bulk response).  async_bulk is called with stats_only=True and the
\* default raise_on_error=True: the other actions of the request are applied
\* and the helper then raises BulkIndexError (BulkRaise).
ItemFail ==
    /\ runName # "none"
    /\ failures < MaxFailures
    /\ \/ /\ runAt = "bulk" /\ pending # <<>>
          /\ pending' = Tail(pending)
          /\ hits' = hits
       \/ /\ runAt = "actions"
          /\ \E h \in hits :
                /\ ~SkipsDocument(runName, h.text)
                /\ hits' = hits \ {h}
          /\ pending' = pending
    /\ failures' = failures + 1
    /\ failed' = failed + 1
    /\ UNCHANGED <<table, index, searchable, epoch, up, pc, runName, runAt, runBy,
                   writes, docs_to_process, result, ep, hist>>
    /\ UNCHANGED fnVars

\* the bulk helper raises after the request that held the rejected action:
\* the actions not yet sent are never applied, line 173 / 186 is not
\* reached, the except branch logs and re-raises
BulkRaise ==
    /\ runName # "none" /\ failed > 0
    /\ Raise
    /\ pending' = <<>>
    /\ hits' = {}
    /\ UNCHANGED <<table, index, searchable, epoch, up, writes, failures, ep>>
    /\ UNCHANGED fnVars

----------------------------------------------------------------------------
(* The read endpoints get_antisemitic_with_weapons and get_multiple_weapons *)

Endpoints == {"antisemitic-with-weapons", "multiple-weapons"}

SearchParams(which) == IF which = "antisemitic-with-weapons"
                       THEN AntisemiticWithWeaponsParams
                       ELSE MultipleWeaponsParams

\* a search_documents that answers a store error with an empty result
search_documents_Swallowing(storeOk, view, kwargs) ==
    [raised |-> FALSE,
     documents |-> IF storeOk THEN {d.id : d \in Select(view, kwargs)} ELSE {}]

\* ElasticSearchRepository.search_documents: the documents the predicates
\* select (the endpoints ask for up to 10000 of them); a store error is logged
\* and re-raised
search_documents(storeOk, view, kwargs) ==
    [raised |-> ~storeOk,
     documents |-> IF storeOk THEN {d.id : d \in Select(view, kwargs)} ELSE {}]

\* the three bodies an endpoint returns (lines 113-117, 124-129, 133)
IncompleteResponse == [status |-> "processing_incomplete",
                       message |-> "processing not complete", documents |-> {}]

SuccessResponse(documents) == [status |-> "success", message |-> "found",
                               documents |-> documents]

\* an error body that tells the caller what failed
ErrorResponse_Detailed == [status |-> "error", message |-> "store error",
                           documents |-> {}]

ErrorResponse == [status |-> "error", message |-> "Internal server error",
                  documents |-> {}]

\* the response returned.  ep.inc tells whether, at every step of the request
\* from its arrival to the response, the store's view was empty or had a
\* document without emotion; ep.done whether process() had completed when the
\* response was returned
Respond(response) ==
    ep' = [ep EXCEPT !.pc = "responded", !.status = response.status,
                     !.message = response.message,
                     !.documents = response.documents,
                     !.inc = ep.inc /\ Incomplete(searchable),
                     !.done = (pc = "done")]

EpRequest(which) ==
    /\ up /\ ep.pc \in {"idle", "responded"}
    /\ ep' = [pc |-> "L109", which |-> which, missing |-> 0,
              inc |-> Incomplete(searchable), status |-> "none",
              message |-> "none", documents |-> {}, done |-> FALSE]
    /\ UNCHANGED <<table, index, searchable, epoch, up, pc, runName, runAt, runBy,
                   pending, hits, writes, docs_to_process, failed, result, failures, hist>>
    /\ UNCHANGED fnVars

\* lines 109 / 149: missing_emotion = count(not_exists_filters=["emotion"])
EpMissing(storeOk) ==
    LET missing_emotion == count(storeOk, searchable, EmotionParams)
    IN  IF missing_emotion.raised
        THEN Respond(ErrorResponse)
        ELSE ep' = [ep EXCEPT !.pc = "L110", !.missing = missing_emotion.value,
                              !.inc = ep.inc /\ Incomplete(searchable)]

EpCountMissing ==
    /\ ep.pc = "L109"
    /\ EpMissing(TRUE)
    /\ UNCHANGED <<table, index, searchable, epoch, up, pc, runName, runAt, runBy,
                   pending, hits, writes, docs_to_process, failed, result, failures, hist>>
    /\ UNCHANGED fnVars

\* lines 110-117 / 150-157: total_docs = count() and the completeness test
EpTotal(storeOk) ==
    LET total_docs == count(storeOk, searchable, NoParams)
    IN  IF total_docs.raised
        THEN Respond(ErrorResponse)
        ELSE IF total_docs.value = 0 \/ ep.missing > 0
        THEN Respond(IncompleteResponse)
        ELSE ep' = [ep EXCEPT !.pc = "L120",
                              !.inc = ep.inc /\ Incomplete(searchable)]

EpCountTotal ==
    /\ ep.pc = "L110"
    /\ EpTotal(TRUE)
    /\ UNCHANGED <<table, index, searchable, epoch, up, pc, runName, runAt, runBy,
                   pending, hits, writes, docs_to_process, failed, result, failures, hist>>
    /\ UNCHANGED fnVars

\* lines 120-129 / 160-169: the search and the success response; an error
\* the search raises is caught by the handler of lines 131-133 / 171-173
EpResult(storeOk) ==
    LET found == search_documents(storeOk, searchable, SearchParams(ep.which))
    IN  IF found.raised
        THEN Respond(ErrorResponse)
        ELSE Respond(SuccessResponse(found.documents))

EpSearch ==
    /\ ep.pc = "L120"
    /\ EpResult(TRUE)
    /\ UNCHANGED <<table, index, searchable, epoch, up, pc, runName, runAt, runBy,
                   pending, hits, writes, docs_to_process, failed, result, failures, hist>>
    /\ UNCHANGED fnVars

\* a store call of the endpoint fails: a count returns 0, a failed search
\* raises and the handler of lines 131-133 answers with status error
EpFail ==
    /\ ep.pc \in {"L109", "L110", "L120"}
    /\ failures < MaxFailures
    /\ failures' = failures + 1
    /\ CASE ep.pc = "L109" -> EpMissing(FALSE)
         [] ep.pc = "L110" -> EpTotal(FALSE)
         [] OTHER -> EpResult(FALSE)
    /\ UNCHANGED <<table, index, searchable, epoch, up, pc, runName, runAt, runBy,
                   pending, hits, writes, docs_to_process, failed, result, hist>>
    /\ UNCHANGED fnVars

----------------------------------------------------------------------------

\* the background work: startup, the process() task, the pass methods
NextPipeline ==
    \/ Lifespan
    \/ LifespanFails
    \/ StoreRefresh
    \/ LoadAndIndex
    \/ IndexAction
    \/ IndexRefresh
    \/ ProcessRefresh
    \/ \E name \in Passes : CallPass(name)
    \/ PassCount
    \/ PassScan
    \/ PassAction
    \/ PassRefresh
    \/ PassFail
    \/ ItemFail
    \/ BulkRaise

\* the requests to the read endpoints
NextApi ==
    \/ \E which \in Endpoints : EpRequest(which)
    \/ EpCountMissing
    \/ EpCountTotal
    \/ EpSearch
    \/ EpFail

Next == NextPipeline \/ NextApi

Spec == Init /\ [][Next]_vars

\* the pipeline without any request to the read endpoints
SpecPipeline == Init /\ [][NextPipeline]_vars

----------------------------------------------------------------------------
(* _build_query applied to keyword arguments of its own *)

InitQuery ==
    /\ InitApp(<<>>)
    /\ call \in {[fn |-> "_build_query", args |-> p] : p \in QueryInputs}
    /\ returned = None

BuildQuery ==
    /\ call.fn = "_build_query" /\ returned = None
    /\ returned' = Some(build_query(call.args))
    /\ UNCHANGED <<appVars, call>>

SpecQuery == InitQuery /\ [][BuildQuery]_vars

----------------------------------------------------------------------------
(* WeaponDetector.find_weapons applied to a keyword list and a sentence *)

\* the sentence of the example at the end of weapon_detector.py
ExampleSentence == <<"he", " ", "had", " ", "a", " ", "gun", " ", "and", " ", "a",
                     " ", "knife">>

Sentences ==
    UNION {[1..n -> {"he", "gun", "knife", " "}] : n \in 0..MaxWords}
    \cup {ExampleSentence}

InitWeapons ==
    /\ InitApp(<<>>)
    /\ call \in {[fn |-> "find_weapons", args |-> [weapons |-> W, sentence |-> t]] :
                    W \in SUBSET SeqToSet(weapon_as_list), t \in Sentences}
    /\ returned = None

FindWeapons ==
    /\ call.fn = "find_weapons" /\ returned = None
    /\ returned' = Some(find_weapons(call.args.weapons, call.args.sentence))
    /\ UNCHANGED <<appVars, call>>

SpecWeapons == InitWeapons /\ [][FindWeapons]_vars

----------------------------------------------------------------------------
(* Properties *)

PipelineOrder == <<"ingest", "refresh", "emotion", "refresh",
                   "weapons", "refresh", "cleanup", "refresh">>

IsPrefix(s, t) == Len(s) <= Len(t) /\ \A i \in 1..Len(s) : s[i] = t[i]

TaskEnded == pc \in {"done", "failed"}

\* a document the cleanup is meant to remove: not flagged, no weapons field,
\* emotion neutral or positive
IrrelevantDoc(d) ==
    /\ ~d.Antisemitic
    /\ d.weapons = None
    /\ d.emotion \in {Some("neutral"), Some("positive")}

\* an ingested row the pipeline is meant to prune: not flagged, no weapon
\* keyword in its text, sentiment neutral or positive
IrrelevantRecord(r) ==
    /\ ~r.Antisemitic
    /\ \A i \in 1..Len(r.text) : r.text[i] \notin SeqToSet(weapon_as_list)
    /\ get_sentiment_label(r.text) \in {Some("neutral"), Some("positive")}

\* the pass `name` returns to its caller and no store call of it failed
Completes(name) ==
    /\ runName = name /\ runName' = "none"
    /\ result' \in {"None", "dict"}
    /\ failures' = failures
    /\ epoch' = epoch

\* C1: in a run of process() the steps completed are a prefix of ingestion,
\* refresh, emotion, refresh, weapons, refresh, cleanup, refresh, and when the
\* task has ended without any store failure all eight have been executed, each
\* pass followed by its refresh.
C1_PassesInOrderWithRefresh ==
    /\ IsPrefix(hist, PipelineOrder)
    /\ (TaskEnded /\ failures = 0) => hist = PipelineOrder

\* C2: if no store operation fails the run started at startup does not abort:
\* every refresh() the sequencer invokes on the repository succeeds.
C2_RunDoesNotAbort == (failures = 0) => pc # "failed"

\* C3: when the task ends after a run without store failure over rows with
\* non-empty text, the index holds exactly the ingested documents that are not
\* (Antisemitic false, no weapon keyword, sentiment neutral or positive), each
\* with an emotion.
FinalIndexAsSpecified ==
    LET cleaned == validate_and_clean_dataframe(table)
        kept == {k \in 1..Len(cleaned) : ~IrrelevantRecord(cleaned[k])}
    IN  /\ {d.id : d \in index} = {<<epoch, k>> : k \in kept}
        /\ \A d \in index : d.emotion # None

AllTextsNonEmpty ==
    LET cleaned == validate_and_clean_dataframe(table)
    IN  \A k \in 1..Len(cleaned) : cleaned[k].text # <<>>

C3_EndToEnd ==
    [][(~TaskEnded /\ TaskEnded' /\ failures' = 0 /\ AllTextsNonEmpty)
         => FinalIndexAsSpecified']_vars

\* C4: when the cleanup pass returns and no store call of it failed, no
\* document with Antisemitic false, no weapons field and emotion neutral or
\* positive is left in the index.
C4_CleanupRemovesIrrelevant ==
    [][Completes("cleanup") => \A d \in index' : ~IrrelevantDoc(d)]_vars

C4_Witness ==
    /\ runName = "none" /\ result = "dict" /\ writes > 0
    /\ Cardinality(index) < Len(validate_and_clean_dataframe(table))
    /\ index # {}
    /\ \A d \in index : ~IrrelevantDoc(d)

\* C5: when the emotion pass has completed (and its writes are refreshed) the
\* predicate "emotion absent" matches no document, so a second pass has
\* nothing to write.
C5_EmotionAbsentMatchesNothing ==
    [][Completes("emotion") => \A d \in searchable' : d.emotion # None]_vars

\* C6: a response to a request during which the index was empty or had a
\* document without emotion has status processing_incomplete.
C6_IncompleteIsReported ==
    (ep.pc = "responded" /\ ep.inc) => ep.status = "processing_incomplete"

\* C7: a response has status success only if process() had completed.
C7_SuccessOnlyWhenPipelineDone ==
    (ep.pc = "responded" /\ ep.status = "success") => ep.done

\* C8: a count never raises; when its store call fails it yields 0 (the pass
\* returns None to its caller), otherwise it yields the number of documents
\* the store selects with the predicates.
C8_CountNeverRaises ==
    [][(epoch' = epoch /\ runAt = "count" /\ runAt' # "count") =>
         /\ result' # "raised"
         /\ pc # "failed" => pc' # "failed"
         /\ IF failures' > failures
            THEN runName' = "none" /\ result' = "None" /\ docs_to_process' = 0
            ELSE LET n == Cardinality({d \in searchable :
                                         Matches(d, build_query(ParamsOf(runName)))})
                 IN  /\ (n > 0) => (runAt' = "scan" /\ docs_to_process' = n)
                     /\ (n = 0) => (runName' = "none" /\ result' = "None")
    ]_vars

\* a pass returned None although each of the three predicates selects a
\* document: its count failed at the store
C8_Witness ==
    /\ runName = "none" /\ result = "None" /\ failures > 0
    /\ \A name \in Passes : Select(searchable, ParamsOf(name)) # {}

\* C9: a step that raises ends the run: the index is left as it is, process()
\* executes no further pass or refresh, and the task stays failed.
C9_AbortWithoutRollback ==
    [][epoch' = epoch =>
         /\ (result' = "raised" /\ result # "raised") =>
               /\ index' = index
               /\ runBy = "process" => pc' = "failed"
         /\ (pc # "failed" /\ pc' = "failed") => index' = index
         /\ pc = "failed" =>
               /\ pc' = "failed"
               /\ hist' = hist
               /\ runBy' # "process"
    ]_vars

\* ingestion failed after it had indexed a document: the document is kept
C9_Witness ==
    /\ pc = "failed" /\ result = "raised" /\ hist = <<>>
    /\ index # {}
    /\ Cardinality(index) < Len(validate_and_clean_dataframe(table))

\* C10 as stated: a document enriched before a restart is still there, with
\* its enrichment, after the restart.
C10_EnrichmentSurvivesRestart ==
    [][epoch' > epoch => \A d \in index : d.emotion # None => d \in index']_vars

\* C10 as amended: startup deletes and recreates the index, so while the
\* restarted application runs every document of the index was ingested by the
\* current run.
C10_IndexRecreatedAtStart ==
    up => \A d \in index \cup searchable : d.id[1] = epoch

C10_Witness ==
    /\ epoch = 2 /\ up /\ pc = "failed"
    /\ index # {}
    /\ \A d \in index : d.emotion = None

\* C11: a store error during a stream or a bulk call makes the running method
\* raise: the stream is closed, no further action is sent, and no counts are
\* returned; a store error during the search of an endpoint reaches the
\* endpoint's handler as an error, never as an empty result.
C11_StoreErrorsPropagate ==
    [][epoch' = epoch =>
         /\ (failures' > failures /\ ep' = ep /\ failed' # failed + 1
               /\ runName # "none" /\ runAt # "count") =>
               /\ result' = "raised"
               /\ runName' = "none"
               /\ hits' = {} /\ pending' = <<>>
               /\ index' = index
         /\ (failures' > failures /\ ep' # ep /\ ep.pc = "L120") =>
               /\ ep'.pc = "responded"
               /\ ep'.status = "error"
    ]_vars

\* the weapon pass was aborted by a store error after it had updated one
\* document and before it reached another one
C11_Witness ==
    /\ runName = "none" /\ result = "raised" /\ failures > 0
    /\ \E d \in index : d.weapons # None
    /\ \E d \in index : d.weapons = None /\ ~SkipsDocument("weapons", d.text)

\* C12: when a bulk call returns its counts, the store's searchable view holds
\* every write applied so far.
C12_BulkEndsWithRefresh ==
    [][(epoch' = epoch /\ runName # "none" /\ runName' = "none" /\ result' = "dict")
         => (index' = index /\ searchable' = index')]_vars

C12_Witness ==
    /\ runName = "none" /\ result = "dict" /\ writes > 0
    /\ searchable = index
    /\ \E d \in searchable : d.weapons # None

\* C13: when ingestion returns, a count without predicates reports the number
\* of rows of the cleaned table.
C13_CountAfterIngestion ==
    [][(epoch' = epoch /\ runName = "ingest" /\ runName' = "none" /\ result' = "dict")
         => count(TRUE, searchable', NoParams).value
              = Len(validate_and_clean_dataframe(table))]_vars

C13_Witness ==
    /\ pc = "L27" /\ result = "dict"
    /\ Len(validate_and_clean_dataframe(table)) >= 2
    /\ count(TRUE, searchable, NoParams).value = Len(validate_and_clean_dataframe(table))

\* C14: a bulk call in which the store rejected an action still returns its
\* counts instead of raising.
C14_ItemFailureIsCounted ==
    [][(epoch' = epoch /\ failures' = failures
          /\ runName # "none" /\ failed > 0 /\ runName' = "none")
         => result' = "dict"]_vars

\* C15: an error the search raises inside an endpoint is answered with the
\* error body (status error, the generic message, no documents), and every
\* response with status error has that body.
C15_EndpointErrorResponse ==
    [][epoch' = epoch =>
         /\ (failures' > failures /\ ep' # ep /\ ep.pc = "L120") =>
               /\ ep'.pc = "responded"
               /\ ep'.status = "error"
         /\ (ep'.pc = "responded" /\ ep'.status = "error") =>
               /\ ep'.message = "Internal server error"
               /\ ep'.documents = {}
    ]_vars

\* the search failed although it had a document to return
C15_Witness ==
    /\ ep.pc = "responded" /\ ep.status = "error" /\ failures > 0
    /\ Select(searchable, SearchParams(ep.which)) # {}

\* the clause groups of the query the call returned
Built == returned[1]

Supplied == call.args

QueryBuilt == call.fn = "_build_query" /\ returned # None

\* every entry of the filter arguments is a clause of its group, the filter
\* group holds nothing else and is ordered term, exists, terms, range, script
KindRank(kind) == CASE kind = "term" -> 1 [] kind = "exists" -> 2 [] kind = "terms" -> 3
                    [] kind = "range" -> 4 [] OTHER -> 5

In(clause, group) == \E j \in 1..Len(group) : group[j] = clause

FiltersKept ==
    LET p == Supplied
        q == Built
    IN  /\ \A i \in 1..Len(p.term_filters) :
              In(Clause("term", p.term_filters[i].field, <<p.term_filters[i].value>>), q.filter)
        /\ \A i \in 1..Len(p.exists_filters) :
              In(Clause("exists", p.exists_filters[i], <<>>), q.filter)
        /\ \A i \in 1..Len(p.terms_filters) :
              In(Clause("terms", p.terms_filters[i].field, p.terms_filters[i].values), q.filter)
        /\ \A i \in 1..Len(p.range_filters) :
              In(Clause("range", p.range_filters[i].field, p.range_filters[i].config), q.filter)
        /\ \A i \in 1..Len(p.script_filters) :
              In(Clause("script", "", <<p.script_filters[i]>>), q.filter)
        /\ Len(q.filter) = Len(p.term_filters) + Len(p.exists_filters)
                           + Len(p.terms_filters) + Len(p.range_filters)
                           + Len(p.script_filters)
        /\ \A j \in 1..Len(q.filter) : \A k \in 1..Len(q.filter) :
              j < k => KindRank(q.filter[j].kind) <= KindRank(q.filter[k].kind)
        /\ \A i \in 1..Len(p.not_exists_filters) :
              In(Clause("exists", p.not_exists_filters[i], <<>>), q.must_not)
        /\ Len(q.must_not) = Len(p.not_exists_filters)

\* C16 as stated: every supplied predicate, the text match and the term-list
\* match included, is a clause of the query built.
C16_NoPredicateDropped ==
    QueryBuilt =>
        /\ Supplied.query_text # "" =>
              In(Clause("match", "text", <<Supplied.query_text>>), Built.must)
        /\ Supplied.search_terms # <<>> =>
              In(Clause("terms", "text", Supplied.search_terms), Built.must)
        /\ FiltersKept

\* C16 as amended: every supplied filter predicate is a clause of the query
\* built, and so is the text match; the term-list match is a clause exactly
\* when no query text is supplied.
C16_NoFilterDropped ==
    QueryBuilt =>
        /\ Supplied.query_text # "" =>
              In(Clause("match", "text", <<Supplied.query_text>>), Built.must)
        /\ Supplied.search_terms # <<>> =>
              (In(Clause("terms", "text", Supplied.search_terms), Built.must)
                 <=> Supplied.query_text = "")
        /\ FiltersKept

\* both text arguments and every kind of filter were supplied
C16_Witness ==
    /\ QueryBuilt
    /\ Supplied.query_text # "" /\ Supplied.search_terms # <<>>
    /\ Supplied.term_filters # <<>> /\ Supplied.exists_filters # <<>>
    /\ Supplied.not_exists_filters # <<>> /\ Supplied.terms_filters # <<>>
    /\ Supplied.range_filters # <<>> /\ Supplied.script_filters # <<>>
    /\ Len(Built.filter) >= 5

\* C17: the must group of a query built holds exactly one clause: the text
\* match if a query text is given, else the term-list match if search terms
\* are given, else match-all.
C17_OneClauseInMust ==
    QueryBuilt =>
        /\ Len(Built.must) = 1
        /\ Built.must[1].kind \in {"match", "terms", "match_all"}
        /\ Built.must[1].kind = "match" <=> Supplied.query_text # ""
        /\ Built.must[1].kind = "terms" <=>
              (Supplied.query_text = "" /\ Supplied.search_terms # <<>>)
        /\ Built.must[1].kind = "match" =>
              Built.must[1] = Clause("match", "text", <<Supplied.query_text>>)
        /\ Built.must[1].kind = "terms" =>
              Built.must[1] = Clause("terms", "text", Supplied.search_terms)

C17_Witness ==
    /\ QueryBuilt
    /\ Supplied.query_text = "" /\ Supplied.search_terms # <<>>
    /\ Built.must = <<Clause("terms", "text", Supplied.search_terms)>>
    /\ Built.filter # <<>>

\* a row cleaning has to keep: timestamp parseable, identifier numeric, text
\* present and not empty
ValidRow(r) == r.CreateDate /\ r.TweetID /\ r.text # None /\ r.text # Some(<<>>)

\* the position in s of its k-th element satisfying Test
KthIndex(s, k, Test(_)) ==
    CHOOSE i \in 1..Len(s) :
        Test(s[i]) /\ Cardinality({j \in 1..i : Test(s[j])}) = k

\* C18: the cleaned table holds exactly the valid rows of the source table, in
\* order and with flag and text unchanged, and every document of the index has
\* a non-empty text.
C18_CleaningDropsInvalidRows ==
    [][/\ (runName = "none" /\ runName' = "ingest") =>
            LET kept == {i \in 1..Len(table) : ValidRow(table[i])}
            IN  /\ Len(pending') = Cardinality(kept)
                /\ \A k \in 1..Cardinality(kept) :
                      LET r == table[KthIndex(table, k, ValidRow)]
                      IN  pending'[k] = [CreateDate |-> r.CreateDate, TweetID |-> r.TweetID,
                                         Antisemitic |-> r.Antisemitic, text |-> r.text[1]]
       /\ \A d \in index' : d.text # <<>>
    ]_vars

\* the words of the sentence given to find_weapons
FoundIn(sentence, weapons) ==
    {i \in 1..Len(sentence) : sentence[i] # " " /\ sentence[i] \in weapons}

IsKeyword(token) == token # " " /\ token \in call.args.weapons

\* C19: find_weapons returns the words of the sentence that are keywords, in
\* order of occurrence, as a non-empty list, and None when no word is a
\* keyword; the example sentence with {gun, knife} gives [gun, knife].
C19_WeaponsInOrderOrAbsent ==
    (call.fn = "find_weapons" /\ returned # None) =>
        LET found == returned[1]
            sentence == call.args.sentence
            at == FoundIn(sentence, call.args.weapons)
        IN  /\ found # Some(<<>>)
            /\ at = {} <=> found = None
            /\ at # {} =>
                  /\ Len(found[1]) = Cardinality(at)
                  /\ \A k \in 1..Cardinality(at) :
                        found[1][k] = sentence[KthIndex(sentence, k, IsKeyword)]
            /\ (sentence = ExampleSentence /\ call.args.weapons = {"gun", "knife"})
                  => found = Some(<<"gun", "knife">>)

C19_Witness ==
    /\ call.fn = "find_weapons"
    /\ call.args.sentence = ExampleSentence
    /\ call.args.weapons = {"gun", "knife"}
    /\ returned = Some(Some(<<"gun", "knife">>))

\* C20: an enrichment pass rewrites a document only if its text is not empty
\* and the value it writes is not empty, and in every state a derived field is
\* absent or holds a non-empty value.
C20_NoEmptyDerivedField ==
    [][epoch' = epoch =>
         /\ \A d \in index' \ index :
               (\E old \in index : old.id = d.id) =>
                   /\ d.text # <<>>
                   /\ runName \in {"emotion", "weapons"}
                   /\ runName = "emotion" => (d.emotion # None /\ d.emotion[1] # "")
                   /\ runName = "weapons" => (d.weapons # None /\ d.weapons[1] # <<>>)
         /\ \A d \in index' : d.emotion # Some("") /\ d.weapons # Some(<<>>)
    ]_vars

\* the emotion pass has skipped a document with an empty text and has written
\* the emotion of another one
C20_Witness ==
    /\ runName = "none" /\ result = "dict" /\ writes > 0
    /\ \E d \in index : d.text = <<>> /\ d.emotion = None
    /\ \E d \in index : d.emotion # None /\ d.weapons = None

\* the identifiers of the documents of a set
Ids(docs) == {d.id : d \in docs}

\* C21: a pass whose count is zero, also because the count failed at the
\* store, returns None at once: no scan is opened, nothing is written or
\* refreshed, no error is raised, and a pass called by process() hands over to
\* the next statement.
C21_ZeroCountIsNoOp ==
    [][(epoch' = epoch /\ runName \in Passes /\ runAt = "count" /\ runAt' # "count"
          /\ (failures' > failures \/ Select(searchable, ParamsOf(runName)) = {}))
         => /\ runName' = "none" /\ result' = "None"
            /\ index' = index /\ searchable' = searchable
            /\ hits' = {} /\ writes' = 0
            /\ pc' = IF runBy = "process" THEN NextLine(pc) ELSE pc
    ]_vars

\* a pass returned None, without any store failure, on an index that holds
\* documents
C21_Witness ==
    /\ runName = "none" /\ result = "None" /\ failures = 0
    /\ index # {} /\ searchable = index
    /\ writes = 0

\* C22: the weapon pass never rewrites a document that already carries a
\* weapons field.
C22_WeaponsNotRewritten ==
    [][(epoch' = epoch /\ runName = "weapons")
         => \A d \in index \ index' : d.weapons = None]_vars

\* C23: an update of an enrichment pass changes the target field and
\* updated_at of one document and nothing else.
C23_UpdateTouchesOnlyTarget ==
    [][(epoch' = epoch /\ runName \in {"emotion", "weapons"} /\ index' # index)
         => \E old \in index : \E new \in index' :
               /\ index' = (index \ {old}) \cup {new}
               /\ new.id = old.id
               /\ new.TweetID = old.TweetID /\ new.CreateDate = old.CreateDate
               /\ new.Antisemitic = old.Antisemitic /\ new.text = old.text
               /\ new.created_at = old.created_at
               /\ new.updated_at = runName
               /\ IF runName = "emotion"
                  THEN new.emotion # None /\ new.weapons = old.weapons
                  ELSE new.weapons # None /\ new.emotion = old.emotion
    ]_vars

\* the weapon pass has updated a document that already had its emotion
C23_Witness ==
    /\ runName = "weapons" /\ runAt = "actions" /\ writes > 0
    /\ \E d \in index : d.updated_at = "weapons" /\ d.weapons # None /\ d.emotion # None

\* C24: a document on whose text the sentiment scoring raises gets no emotion.
C24_FailedAnalysisLeavesFieldAbsent ==
    \A d \in index : polarity_scores(d.text).raised => d.emotion = None

\* C25: a step that removes a document from the index is a step of the
\* cleanup pass, and the document is not flagged, has no weapons field and has
\* the emotion neutral or positive.
C25_CleanupDeletesOnlyIrrelevant ==
    [][epoch' = epoch =>
         \A d \in index : d.id \notin Ids(index') =>
             /\ runName = "cleanup"
             /\ ~d.Antisemitic
             /\ d.weapons = None
             /\ d.emotion \in {Some("neutral"), Some("positive")}
    ]_vars

\* the cleanup has deleted a document and has kept a document that is not
\* flagged and has no weapons field, and one that has no emotion
C25_Witness ==
    /\ runName = "none" /\ result = "dict" /\ writes > 0
    /\ Cardinality(index) < Len(validate_and_clean_dataframe(table))
    /\ \E d \in index : ~d.Antisemitic /\ d.weapons = None /\ d.emotion = None

\* the store is as a completed run leaves it: ingestion has returned, no pass
\* is running, every write is searchable, and none of the three passes has
\* anything left to write or delete
RunEffectsComplete ==
    /\ up /\ runName = "none"
    /\ pc = "done" \/ (pc = "failed" /\ hist # <<>>)
    /\ searchable = index
    /\ \A name \in {"emotion", "weapons"} :
          \A d \in Select(index, ParamsOf(name)) :
             \/ SkipsDocument(name, d.text)
             \/ (name = "weapons" /\ d.weapons # None)
    /\ Select(index, CleanupParams) = {}

\* C26: a request answered, with every store call answered, when the run's
\* work on a non-empty cleaned table is complete gets the status success.
C26_SuccessOnceComplete ==
    [][(epoch' = epoch /\ failures' = 0
          /\ RunEffectsComplete
          /\ Len(validate_and_clean_dataframe(table)) > 0
          /\ ep.pc \in {"L110", "L120"} /\ ep'.pc = "responded"
          /\ ep.missing = count(TRUE, searchable, EmotionParams).value)
         => ep'.status = "success"]_vars

\* C27: only a step of ingestion adds an identifier to the index, only a step
\* of the cleanup pass removes one; the enrichment passes leave the set of
\* identifiers as it is.
C27_EnrichmentKeepsIdentifiers ==
    [][epoch' = epoch =>
         /\ Ids(index') \ Ids(index) # {} => runName = "ingest"
         /\ Ids(index) \ Ids(index') # {} => runName = "cleanup"
    ]_vars

\* both enrichment passes have written and every ingested document is there
C27_Witness ==
    /\ runName = "none" /\ result = "dict"
    /\ \E d \in index : d.emotion # None /\ d.weapons # None
    /\ Ids(index) = {<<epoch, k>> : k \in 1..Len(validate_and_clean_dataframe(table))}
    /\ Cardinality(index) >= 2

====
